---- MODULE Spec2Model ----
(***************************************************************************)
(* Model of owlsensor/serial_cm.py: CMDataCollector, the collector that    *)
(* reads fixed-length frames of the OWL CM160 from a serial byte stream.   *)
(*                                                                         *)
(* Tasks are asyncio coroutines on one event loop: code between two        *)
(* suspension points runs atomically.  The suspension points are the wait  *)
(* for one transport byte (reader.readexactly(1)) and the inter-poll sleep *)
(* (asyncio.sleep); opening the transport and writing a command are taken  *)
(* as one step each, with a nondeterministic outcome.                      *)
(***************************************************************************)
EXTENDS Integers, Sequences, FiniteSets, TLC

\* ------------------------------------------------------------------ bounds
\* Frame length of the modelled configuration (the CM160 table uses 11).
RecordLength == 3
\* The clock stops advancing at MaxTime.
MaxTime == 31
\* Number of frames handed to parse_packet in the dispatch harness.
MaxScript == 4
\* Number of bytes the device sends.
MaxBytes == 4

\* --------------------------------------------------------------- constants
Timeout == 30
FreshWindow == 15
\* Offset of the measured value: the last two bytes but one of the frame in
\* the CM160 table (8 of 11); here the two bytes after the tag.
Offset == RecordLength - 2
byte_order == "lsb"

\* const.py is not part of the sources at hand: the tags, markers and
\* commands are distinct values, the markers one byte long.
PACKET_ID_HISTORY == 169
PACKET_ID_REALTIME == 81
PACKET_ID_HISTORY_DATA == 89
IdByte == 73
WaitByte == 87
ID_REPLY == <<IdByte>>
ID_WAIT_HISTORY == <<WaitByte>>
START_REQUEST == "start"
CONTINUE_REQUEST == "continue"

\* Python's None for _data, last_poll and results; readings are >= 0.
None == -1
NoTask == "no_task"

DEVICE_STATES == [Unknown |-> 0, IdentifierReceived |-> 1,
                  TransmittingHistory |-> 2, TransmittingRealtime |-> 3]

Pollers == {"p1", "p2"}
Tasks == {"fg"} \cup Pollers

\* Bytes of the frames handed to the dispatch harness.
ByteSet == {PACKET_ID_HISTORY, PACKET_ID_REALTIME, PACKET_ID_HISTORY_DATA,
            IdByte, WaitByte}
\* Bytes the device sends on the stream.
DeviceBytes == {PACKET_ID_HISTORY, PACKET_ID_REALTIME, IdByte}
\* Elapsed time between two steps.
TickSet == {15, 16}

VARIABLES
    connected,      \* self.connected
    device_found,   \* self.device_found
    device_state,   \* self.device_state
    data,           \* self._data (None or the reading, in tenths)
    last_poll,      \* self.last_poll (None or a time)
    update_task,    \* self.update_task (NoTask or a poller)
    scan_interval,  \* self.scan_interval
    now,            \* the event loop's clock
    pc,             \* position of each task
    sbuf,           \* get_packet's buffer of each task
    starttime,      \* get_packet's start time of each task
    wake,           \* end of the sleep of each poller
    nsent,          \* number of bytes the device has sent
    mixed,          \* another task took a byte of the stream after sbuf[t]'s first
    ev,             \* what the last step did
    hist,           \* dispatch harness: the frames dispatched so far
    decoded         \* decode harness: a value frame with its two decodings

vars == <<connected, device_found, device_state, data, last_poll, update_task,
          scan_interval, now, pc, sbuf, starttime, wake, nsent, mixed,
          ev, hist, decoded>>

\* --------------------------------------------------------- pure functions
Min(a, b) == IF a < b THEN a ELSE b

\* bytes.decode("cp850"): ASCII bytes keep their code point, the others map
\* to code points outside ASCII.
cp850(b) == IF b < 128 THEN b ELSE 1000 + b
Decode(bs) == [i \in 1..Len(bs) |-> cp850(bs[i])]

\* Python's `m in s` on strings.
Contains(s, m) ==
    \E i \in 0..(Len(s) - Len(m)) : \A j \in 1..Len(m) : s[i + j] = m[j]

\* buffer[1:10]
Payload(buffer) ==
    IF Len(buffer) < 2 THEN <<>> ELSE SubSeq(buffer, 2, Min(10, Len(buffer)))

\* round(x * 0.07, 1), in tenths.
Scale(x) == (x * 7 + 5) \div 10

\* Variant: the two branches of the byte order test exchanged.
Combine_Swapped(buf, order) ==
    IF order = "msb"
    THEN buf[Offset + 2] * 256 + buf[Offset + 1]
    ELSE buf[Offset + 1] * 256 + buf[Offset + 2]

\* The integer parse_buffer makes of the two bytes at the offset.
Combine(buf, order) ==
    IF order = "msb"
    THEN buf[Offset + 1] * 256 + buf[Offset + 2]
    ELSE buf[Offset + 2] * 256 + buf[Offset + 1]

parse_buffer(buf, order) == Scale(Combine(buf, order))

\* Variant: frames longer than the record length pass the length test.
LengthOk_AtLeast(buffer) == Len(buffer) >= RecordLength

\* parse_packet's length test.
LengthOk(buffer) == Len(buffer) = RecordLength

\* Variant: the history-data tag is answered with START_REQUEST as well.
WantStart_AnyHistory(tag, found) ==
    tag \in {PACKET_ID_HISTORY, PACKET_ID_HISTORY_DATA} /\ found

\* Variant: the history tag is answered whether the device is found or not.
WantStart_Unfound(tag, found) == tag = PACKET_ID_HISTORY

\* parse_packet writes START_REQUEST: the history tag of a found device.
WantStart(tag, found) == tag = PACKET_ID_HISTORY /\ found

\* parse_packet writes CONTINUE_REQUEST: the wait marker of a found device.
WantContinue(str, found) == found /\ Contains(str, Decode(ID_WAIT_HISTORY))

\* Variant: the history-data branch does not lower device_state.
TagState_Monotonic(tag, state) ==
    IF tag = PACKET_ID_HISTORY THEN state
    ELSE IF tag = PACKET_ID_REALTIME THEN DEVICE_STATES.TransmittingRealtime
    ELSE IF tag = PACKET_ID_HISTORY_DATA
    THEN (IF state < DEVICE_STATES.TransmittingHistory
          THEN DEVICE_STATES.TransmittingHistory ELSE state)
    ELSE state

\* self.device_state after the dispatch on the tag.
TagState(tag, state) ==
    IF tag = PACKET_ID_HISTORY THEN state
    ELSE IF tag = PACKET_ID_REALTIME THEN DEVICE_STATES.TransmittingRealtime
    ELSE IF tag = PACKET_ID_HISTORY_DATA THEN DEVICE_STATES.TransmittingHistory
    ELSE state

\* Variant: the history-data branch returns parse_buffer's result too.
YieldsReading_HistoryData(tag) ==
    tag \in {PACKET_ID_REALTIME, PACKET_ID_HISTORY_DATA}

\* The tag whose branch returns parse_buffer's result.
YieldsReading(tag) == tag = PACKET_ID_REALTIME

\* parse_packet on `buffer` with self.device_found = found and
\* self.device_state = state.  wfail is the number of the write that raises
\* SerialException (0: none does).  The result gives the fields afterwards,
\* the commands written, whether the call raised and what it returned.
parse_packet(buffer, found, state, wfail) ==
    IF ~LengthOk(buffer)
    THEN [found |-> found, state |-> state, wr |-> <<>>, raised |-> FALSE, res |-> None]
    ELSE
    LET str    == Decode(Payload(buffer))
        f1     == found \/ Contains(str, Decode(ID_REPLY))
        wcont  == WantContinue(str, f1)
        w1     == IF wcont THEN <<CONTINUE_REQUEST>> ELSE <<>>
        wstart == WantStart(buffer[1], f1)
    IN  IF wcont /\ wfail = 1
        THEN [found |-> f1, state |-> state, wr |-> <<>>, raised |-> TRUE, res |-> None]
        ELSE IF wstart /\ wfail = Len(w1) + 1
        THEN [found |-> f1, state |-> state, wr |-> w1, raised |-> TRUE, res |-> None]
        ELSE [found |-> f1, state |-> TagState(buffer[1], state),
              wr |-> IF wstart THEN Append(w1, START_REQUEST) ELSE w1,
              raised |-> FALSE,
              res |-> IF YieldsReading(buffer[1])
                      THEN parse_buffer(buffer, byte_order) ELSE None]

\* ------------------------------------------------------------------ events
\* What one step did: the task, the operation, whether the step began a
\* read_data call, the transport operations of the step (open, bytes read,
\* commands written), whether a SerialException was raised in the cycle, how
\* the call ended (ret: "pending" while it is suspended) and what it
\* returned, the poller started and the poller cancelled, whether a frame was
\* handed to parse_packet and whether its bytes were not consecutive, and
\* the length of the frame get_packet returned (None: it did not return).
Ev0 == [t |-> "fg", op |-> "init", called |-> FALSE, opened |-> "no",
        nbytes |-> 0, wr |-> <<>>, fail |-> FALSE, ret |-> "na", res |-> None,
        started |-> NoTask, cancelled |-> NoTask, dispatched |-> FALSE,
        mixed |-> FALSE, got |-> None]

\* ------------------------------------------------------------ the collector
Init ==
    /\ connected = FALSE
    /\ device_found = FALSE
    /\ device_state = DEVICE_STATES.Unknown
    /\ data = None
    /\ last_poll = None
    /\ update_task = NoTask
    /\ scan_interval \in {0, 1}
    /\ now = 0
    /\ pc = [t \in Tasks |-> IF t = "fg" THEN "idle" ELSE "none"]
    /\ sbuf = [t \in Tasks |-> <<>>]
    /\ starttime = [t \in Tasks |-> 0]
    /\ wake = [t \in Tasks |-> 0]
    /\ nsent = 0
    /\ mixed = [t \in Tasks |-> FALSE]
    /\ ev = Ev0
    /\ hist = <<>>
    /\ decoded = <<>>

\* The slot of the task create_task makes: the first one that holds no task
\* once `cancelled` has ended.
FreePoller(cancelled) ==
    IF pc["p1"] = "none" \/ cancelled = "p1" THEN "p1" ELSE "p2"

\* Variant: connect does not clear self.connected before it opens.
connect_KeepFlag(ok) ==
    IF ~ok
    THEN [connected |-> connected, update_task |-> update_task,
          cancelled |-> NoTask, started |-> NoTask, result |-> FALSE]
    ELSE LET new == IF scan_interval > 0 THEN FreePoller(update_task) ELSE NoTask
         IN  [connected |-> TRUE, update_task |-> new,
              cancelled |-> update_task, started |-> new, result |-> TRUE]

\* Variant: connect does not cancel the stored poller.
connect_NoCancel(ok) ==
    IF ~ok
    THEN [connected |-> FALSE, update_task |-> update_task,
          cancelled |-> NoTask, started |-> NoTask, result |-> FALSE]
    ELSE LET new == IF scan_interval > 0 THEN FreePoller(NoTask) ELSE NoTask
         IN  [connected |-> TRUE, update_task |-> new,
              cancelled |-> NoTask, started |-> new, result |-> TRUE]

\* connect(): the fields and the task changes after the call; ok is the
\* outcome of open_serial_connection.
connect(ok) ==
    IF ~ok
    THEN [connected |-> FALSE, update_task |-> update_task,
          cancelled |-> NoTask, started |-> NoTask, result |-> FALSE]
    ELSE LET new == IF scan_interval > 0 THEN FreePoller(update_task) ELSE NoTask
         IN  [connected |-> TRUE, update_task |-> new,
              cancelled |-> update_task, started |-> new, result |-> TRUE]

\* read_data's first lines when the collector is connected already.
NoConnect == [connected |-> TRUE, update_task |-> update_task,
              cancelled |-> NoTask, started |-> NoTask, result |-> TRUE]

\* The freshness test of read_data.
CacheHit(lp, d, mytime) == lp # None /\ (mytime - lp) <= FreshWindow /\ d # None

\* The timeout test of get_packet.
TimedOut(start, t) == (t - start) > Timeout

\* Variant: get_packet returns the bytes it holds when the time is over.
TimeoutPacket_Partial(s) == s

\* What get_packet returns when the time is over, s being its buffer.
TimeoutPacket(s) == <<>>

\* What get_packet returns on IncompleteReadError.
ShortReadPacket == <<>>

\* Variant: read_data's loop ends after any frame that was dispatched.
Finished_AnyResult(res) == TRUE

\* read_data's loop ends when parse_packet returned a result.
Finished(res) == res # None

\* Variant: the handler leaves self.connected as it is.
CycleFail_KeepConnected ==
    [connected |-> connected, data |-> data, last_poll |-> last_poll,
     ret |-> "nothing"]

\* Variant: the handler ends the loop instead of returning, so that the
\* lines after the loop store the empty result and the time.
CycleFail_Stores ==
    [connected |-> FALSE, data |-> None, last_poll |-> now, ret |-> "nothing"]

\* read_data's handler of SerialException.
CycleFail == [connected |-> FALSE, data |-> data, last_poll |-> last_poll,
              ret |-> "nothing"]

\* Variant: the end of read_data stores the reading without the time.
CycleDone_NoTime(res) == [data |-> res, last_poll |-> last_poll]

\* The end of read_data after a cycle that produced res.
CycleDone(res) == [data |-> res, last_poll |-> now]

\* Variant: refresh ends when its read_data call has returned.
Returned_PollerEnds(t) == IF t = "fg" THEN "idle" ELSE "none"

\* Where a task is after read_data returned: the caller is idle again, the
\* poller sleeps in refresh.
Returned(t) == IF t = "fg" THEN "idle" ELSE "sleep"

\* Tasks after connect's cancel and create_task, t being the running task.
\* A cancelled task ends at its next suspension point.
PcAfter(c, t, pct) ==
    [p \in Tasks |-> IF p = c.started THEN "start"
                     ELSE IF p = c.cancelled THEN "none"
                     ELSE IF p = t THEN pct ELSE pc[p]]

Gone(c, f, v) == [p \in Tasks |-> IF p = c.cancelled \/ p = c.started THEN v ELSE f[p]]

CanCall(t) ==
    IF t = "fg" THEN pc[t] = "idle"
    ELSE pc[t] = "start" \/ (pc[t] = "sleep" /\ now >= wake[t])

\* read_data up to its first suspension point: connect if needed, the cache
\* test, and the start of the first get_packet.
ReadData(t) ==
    /\ CanCall(t)
    /\ \E ok \in BOOLEAN :
        /\ connected => ok
        /\ LET c    == IF connected THEN NoConnect ELSE connect(ok)
               hit  == CacheHit(last_poll, data, now)
               dead == t = c.cancelled
               e    == [Ev0 EXCEPT !.t = t, !.op = "read_data", !.called = TRUE,
                                   !.opened = IF connected THEN "no"
                                              ELSE IF ok THEN "ok" ELSE "fail",
                                   !.started = c.started, !.cancelled = c.cancelled]
           IN  /\ connected' = c.connected
               /\ update_task' = c.update_task
               /\ IF ~c.result
                  THEN /\ pc' = PcAfter(c, t, Returned(t))
                       /\ wake' = [Gone(c, wake, 0) EXCEPT ![t] = now + scan_interval]
                       /\ sbuf' = Gone(c, sbuf, <<>>)
                       /\ starttime' = Gone(c, starttime, 0)
                       /\ mixed' = Gone(c, mixed, FALSE)
                       /\ ev' = [e EXCEPT !.ret = "nothing"]
                  ELSE IF hit
                  THEN /\ pc' = PcAfter(c, t, Returned(t))
                       /\ wake' = [Gone(c, wake, 0) EXCEPT
                                     ![t] = IF dead THEN 0 ELSE now + scan_interval]
                       /\ sbuf' = Gone(c, sbuf, <<>>)
                       /\ starttime' = Gone(c, starttime, 0)
                       /\ mixed' = Gone(c, mixed, FALSE)
                       /\ ev' = [e EXCEPT !.ret = "reading", !.res = data]
                  ELSE /\ pc' = PcAfter(c, t, "wait_byte")
                       /\ wake' = Gone(c, wake, 0)
                       /\ sbuf' = Gone(c, sbuf, <<>>)
                       /\ starttime' = [Gone(c, starttime, 0) EXCEPT
                                          ![t] = IF dead THEN 0 ELSE now]
                       /\ mixed' = Gone(c, mixed, FALSE)
                       /\ ev' = [e EXCEPT !.ret = IF dead THEN "cancelled" ELSE "pending"]
    /\ UNCHANGED <<device_found, device_state, data, last_poll, scan_interval,
                   now, nsent, hist, decoded>>

\* connect() called by the foreground caller.
FgConnect ==
    /\ pc["fg"] = "idle"
    /\ \E ok \in BOOLEAN :
        LET c == connect(ok)
        IN  /\ connected' = c.connected
            /\ update_task' = c.update_task
            /\ pc' = PcAfter(c, "fg", "idle")
            /\ wake' = Gone(c, wake, 0)
            /\ sbuf' = Gone(c, sbuf, <<>>)
            /\ starttime' = Gone(c, starttime, 0)
            /\ mixed' = Gone(c, mixed, FALSE)
            /\ ev' = [Ev0 EXCEPT !.op = "connect",
                                 !.opened = IF ok THEN "ok" ELSE "fail",
                                 !.ret = IF c.result THEN "true" ELSE "false",
                                 !.started = c.started, !.cancelled = c.cancelled]
    /\ UNCHANGED <<device_found, device_state, data, last_poll, scan_interval,
                   now, nsent, hist, decoded>>

\* A new get_packet of task t: empty buffer, start time now.
Restart(t) ==
    /\ sbuf' = [sbuf EXCEPT ![t] = <<>>]
    /\ starttime' = [starttime EXCEPT ![t] = now]
    /\ UNCHANGED <<pc, wake>>

\* read_data returns from its cycle.
Leave(t) ==
    /\ pc' = [pc EXCEPT ![t] = Returned(t)]
    /\ wake' = [wake EXCEPT ![t] = IF t = "fg" THEN 0 ELSE now + scan_interval]
    /\ sbuf' = [sbuf EXCEPT ![t] = <<>>]
    /\ starttime' = [starttime EXCEPT ![t] = 0]

\* readexactly(1) delivers byte b to task t; the code that follows up to the
\* next readexactly: the end of get_packet, parse_packet and the end or the
\* next turn of read_data's loop.
RecvByte(t, b) ==
    /\ pc[t] = "wait_byte"
    /\ nsent < MaxBytes
    /\ nsent' = nsent + 1
    /\ LET s  == Append(sbuf[t], b)
           full   == Len(s) = RecordLength
           over   == ~full /\ TimedOut(starttime[t], now)
           \* what get_packet returns, if it returns in this step
           packet == IF full THEN s ELSE TimeoutPacket(s)
           mx == mixed[t]
           \* the other tasks that hold a part of a frame lose this byte
           mo == [u \in Tasks |-> mixed[u] \/ (u # t /\ Len(sbuf[u]) > 0)]
           e  == [Ev0 EXCEPT !.t = t, !.op = "recv", !.nbytes = 1, !.ret = "pending",
                             !.got = IF full \/ over THEN Len(packet) ELSE None]
       IN  IF ~full /\ ~over
           THEN /\ sbuf' = [sbuf EXCEPT ![t] = s]
                /\ mixed' = mo
                /\ ev' = e
                /\ UNCHANGED <<pc, wake, starttime, connected, device_found,
                               device_state, data, last_poll>>
           ELSE IF packet = <<>>
           THEN /\ Restart(t)
                /\ mixed' = [mo EXCEPT ![t] = FALSE]
                /\ ev' = e
                /\ UNCHANGED <<connected, device_found, device_state, data, last_poll>>
           ELSE \E wfail \in 0..2 :
                LET r  == parse_packet(packet, device_found, device_state, wfail)
                    e2 == [e EXCEPT !.dispatched = TRUE, !.mixed = mx, !.wr = r.wr]
                IN  /\ device_found' = r.found
                    /\ device_state' = r.state
                    /\ mixed' = [mo EXCEPT ![t] = FALSE]
                    /\ IF r.raised
                       THEN /\ connected' = CycleFail.connected
                            /\ data' = CycleFail.data
                            /\ last_poll' = CycleFail.last_poll
                            /\ Leave(t)
                            /\ ev' = [e2 EXCEPT !.fail = TRUE, !.ret = CycleFail.ret]
                       ELSE IF Finished(r.res)
                       THEN /\ data' = CycleDone(r.res).data
                            /\ last_poll' = CycleDone(r.res).last_poll
                            /\ Leave(t)
                            /\ ev' = [e2 EXCEPT !.ret = "reading", !.res = r.res]
                            /\ UNCHANGED connected
                       ELSE /\ Restart(t)
                            /\ ev' = e2
                            /\ UNCHANGED <<connected, data, last_poll>>
    /\ UNCHANGED <<update_task, scan_interval, now, hist, decoded>>

\* readexactly(1) raises IncompleteReadError: get_packet returns an empty
\* frame and read_data's loop calls get_packet again.
IncompleteRead(t) ==
    /\ pc[t] = "wait_byte"
    /\ Restart(t)
    /\ mixed' = [mixed EXCEPT ![t] = FALSE]
    /\ ev' = [Ev0 EXCEPT !.t = t, !.op = "incomplete", !.ret = "pending",
                         !.got = Len(ShortReadPacket)]
    /\ UNCHANGED <<connected, device_found, device_state, data, last_poll,
                   update_task, scan_interval, now, nsent, hist, decoded>>

\* readexactly(1) raises SerialException.
SerialError(t) ==
    /\ pc[t] = "wait_byte"
    /\ connected' = CycleFail.connected
    /\ data' = CycleFail.data
    /\ last_poll' = CycleFail.last_poll
    /\ Leave(t)
    /\ mixed' = [mixed EXCEPT ![t] = FALSE]
    /\ ev' = [Ev0 EXCEPT !.t = t, !.op = "serial_error", !.fail = TRUE,
                         !.ret = CycleFail.ret]
    /\ UNCHANGED <<device_found, device_state, update_task, scan_interval, now,
                   nsent, hist, decoded>>

\* Time passes; the end of a sleep that is over is kept as 0.
Tick ==
    /\ \E d \in TickSet : now + d <= MaxTime /\ now' = now + d
    /\ wake' = [t \in Tasks |-> IF wake[t] <= now' THEN 0 ELSE wake[t]]
    /\ ev' = [Ev0 EXCEPT !.op = "tick"]
    /\ UNCHANGED <<connected, device_found, device_state, data, last_poll,
                   update_task, scan_interval, pc, sbuf, starttime, nsent,
                   mixed, hist, decoded>>

Next ==
    \/ \E t \in Tasks : ReadData(t)
    \/ FgConnect
    \/ \E t \in Tasks, b \in DeviceBytes : RecvByte(t, b)
    \/ \E t \in Tasks : IncompleteRead(t)
    \/ \E t \in Tasks : SerialError(t)
    \/ Tick

Spec == Init /\ [][Next]_vars

\* -------------------------------------------------------- dispatch harness
\* parse_packet applied to a sequence of frames on a fresh collector, as a
\* test with a scripted transport does.  hist records each frame with what
\* the call wrote, whether it raised, what it returned and the fields after
\* it.  A call that raises ends the sequence, as it ends read_data's cycle.
Filler == PACKET_ID_REALTIME

MkFrame(tag, pay, n) ==
    [i \in 1..n |-> IF i = 1 THEN tag
                    ELSE IF i - 1 <= Len(pay) THEN pay[i - 1] ELSE Filler]

\* Full-length frames: the three tags and an unknown one (IdByte as a tag),
\* without marker, with the identifier marker or with the wait marker.
FullFrames ==
    {MkFrame(PACKET_ID_HISTORY, <<>>, RecordLength),
     MkFrame(PACKET_ID_HISTORY, <<IdByte>>, RecordLength),
     MkFrame(PACKET_ID_REALTIME, <<>>, RecordLength),
     MkFrame(PACKET_ID_REALTIME, <<WaitByte>>, RecordLength),
     MkFrame(PACKET_ID_HISTORY_DATA, <<>>, RecordLength),
     MkFrame(IdByte, <<IdByte>>, RecordLength),
     MkFrame(IdByte, <<WaitByte>>, RecordLength)}

\* Frames of a wrong length, with tags and markers.
WrongFrames ==
    {MkFrame(PACKET_ID_REALTIME, <<IdByte>>, RecordLength - 1),
     MkFrame(PACKET_ID_REALTIME, <<IdByte>>, RecordLength + 1),
     MkFrame(PACKET_ID_HISTORY, <<WaitByte>>, RecordLength + 1)}

DispatchFrames == FullFrames \cup WrongFrames

InitDispatch == Init /\ scan_interval = 0

Dispatch(f, wfail) ==
    /\ Len(hist) < MaxScript
    /\ hist # <<>> => ~hist[Len(hist)].raised
    /\ LET r == parse_packet(f, device_found, device_state, wfail)
       IN  /\ device_found' = r.found
           /\ device_state' = r.state
           /\ hist' = Append(hist, [buf |-> f, wr |-> r.wr, raised |-> r.raised,
                                    res |-> r.res, found |-> r.found,
                                    state |-> r.state])
    /\ UNCHANGED <<connected, data, last_poll, update_task, scan_interval, now,
                   pc, sbuf, starttime, wake, nsent, mixed, ev,
                   decoded>>

\* Between two frames the caller may call connect() again.
NextDispatch ==
    \/ \E f \in DispatchFrames, wfail \in 0..2 : Dispatch(f, wfail)
    \/ FgConnect

SpecDispatch == InitDispatch /\ [][NextDispatch]_vars

\* ---------------------------------------------------------- decode harness
\* parse_buffer's integer for a realtime frame that holds b0 and b1 at the
\* offset, under both byte orders.
ByteValues == 0..255

ValueFrame(b0, b1) ==
    [i \in 1..RecordLength |-> IF i = 1 THEN PACKET_ID_REALTIME
                               ELSE IF i = Offset + 1 THEN b0
                               ELSE IF i = Offset + 2 THEN b1
                               ELSE Filler]

InitDecode == Init /\ scan_interval = 0

DecodeFrame(b0, b1) ==
    /\ LET buf == ValueFrame(b0, b1)
       IN  decoded' = [b0 |-> b0, b1 |-> b1, buf |-> buf,
                       msb |-> Combine(buf, "msb"),
                       lsb |-> Combine(buf, "lsb")]
    /\ UNCHANGED <<connected, device_found, device_state, data, last_poll,
                   update_task, scan_interval, now, pc, sbuf, starttime, wake,
                   nsent, mixed, ev, hist>>

\* One frame is decoded in a behaviour.
NextDecode ==
    /\ decoded = <<>>
    /\ \E b0 \in ByteValues, b1 \in ByteValues : DecodeFrame(b0, b1)

SpecDecode == InitDecode /\ [][NextDecode]_vars

\* ------------------------------------------------------------------ claims
Realtime == DEVICE_STATES.TransmittingRealtime
LivePollers == {p \in Pollers : pc[p] # "none"}

\* C1 (as stated): a read_data call that starts while a reading is cached and
\* at most FreshWindow has passed since last_poll returns the cached reading
\* and does not touch the transport: no open, no byte read, no write.
C1_FreshReadUsesCacheOnly ==
    [][(ev'.called /\ data # None /\ last_poll # None
            /\ now - last_poll <= FreshWindow)
        => (/\ ev'.ret = "reading"
            /\ ev'.res = data
            /\ ev'.opened = "no"
            /\ ev'.nbytes = 0
            /\ ev'.wr = <<>>)]_vars

\* C2: a step in which read_data returns no reading (connect failed, or a
\* SerialException in the cycle) leaves _data and last_poll as they were; a
\* step that changes either of them is the end of a read_data call that
\* produced a reading, and stores that reading and the current time.
C2_FailedReadKeepsCache ==
    [][/\ ev'.ret = "nothing" => (data' = data /\ last_poll' = last_poll)
       /\ (data' # data \/ last_poll' # last_poll)
            => (/\ ev'.ret = "reading"
                /\ ev'.res # None
                /\ data' = ev'.res
                /\ last_poll' = now)]_vars

\* A cycle failed while a reading was cached.
C2_Witness == ev.fail /\ ev.ret = "nothing" /\ data # None /\ last_poll # None

\* C3: a SerialException raised in the cycle (by readexactly or by the write
\* of a command in parse_packet) ends read_data with no reading and with
\* connected false, and a read_data call that starts while connected is false
\* opens the transport in its first step, before it reads any byte, and
\* waits for a byte only if the open succeeded.
C3_FailureContained ==
    [][/\ ev'.fail => (ev'.ret = "nothing" /\ ev'.res = None /\ ~connected')
       /\ (ev'.called /\ ~connected)
            => (/\ ev'.opened # "no"
                /\ ev'.nbytes = 0
                /\ pc'[ev'.t] = "wait_byte" => ev'.opened = "ok")]_vars

\* The write of a command failed during a dispatch.
C3_Witness == ev.fail /\ ev.dispatched /\ ev.ret = "nothing" /\ ~connected

\* C4: when open_serial_connection fails, the call returns False (read_data:
\* no reading) without raising, connected is false afterwards, and no poller
\* is started: update_task and the set of tasks not yet run are unchanged.
C4_ConnectFailure ==
    [][ev'.opened = "fail"
        => (/\ ~connected'
            /\ ev'.ret \in {"false", "nothing"}
            /\ ev'.started = NoTask
            /\ update_task' = update_task
            /\ \A p \in Pollers : pc'[p] = "start" => pc[p] = "start")]_vars

\* connect() failed on a collector that had connected before.
C4_Witness == ev.op = "connect" /\ ev.opened = "fail" /\ update_task # NoTask

\* C5 (as stated): with a positive scan_interval the caller and a poller are
\* never both inside a read cycle, and every frame handed to parse_packet is
\* made of consecutive bytes of the stream.
C5_SingleOwner ==
    scan_interval > 0
        => (/\ ~(pc["fg"] = "wait_byte" /\ \E p \in Pollers : pc[p] = "wait_byte")
            /\ ev.dispatched => ~ev.mixed)

\* C6: at most one poller task exists that has not been cancelled, it is the
\* one update_task holds; a poller is started only by a successful connect
\* with a positive scan_interval, and with scan_interval 0 none ever is.
C6_AtMostOnePoller ==
    /\ Cardinality(LivePollers) <= 1
    /\ \A p \in LivePollers : update_task = p
    /\ ev.started # NoTask => (ev.opened = "ok" /\ scan_interval > 0)
    /\ (ev.opened = "ok" /\ scan_interval > 0) => ev.started = update_task
    /\ scan_interval = 0
        => (LivePollers = {} /\ update_task = NoTask /\ ev.started = NoTask)

\* A successful connect cancelled the stored poller and started a new one.
C6_Witness == ev.opened = "ok" /\ ev.cancelled # NoTask /\ ev.started # NoTask

\* C7 (as stated): no get_packet call stays blocked past the timeout.
C7_AssemblyBounded ==
    \A t \in Tasks : pc[t] = "wait_byte" => now - starttime[t] <= Timeout

IsFull(e) == Len(e.buf) = RecordLength
HasId(e) == Contains(Decode(Payload(e.buf)), Decode(ID_REPLY))
NStart(e) == Cardinality({i \in 1..Len(e.wr) : e.wr[i] = START_REQUEST})

\* The scripted sequence: an identifier-bearing frame, a history-request
\* frame, a history-data frame and a realtime frame, every write succeeding.
Script ==
    /\ Len(hist) = Len(<<"id", "request", "history", "realtime">>)
    /\ \A i \in 1..Len(hist) : IsFull(hist[i]) /\ ~hist[i].raised
    /\ HasId(hist[1])
    /\ hist[2].buf[1] = PACKET_ID_HISTORY
    /\ hist[3].buf[1] = PACKET_ID_HISTORY_DATA
    /\ hist[4].buf[1] = PACKET_ID_REALTIME

\* C8 (as stated): after the scripted sequence device_state is
\* TransmittingRealtime, device_found is true, and START_REQUEST was written
\* exactly once, during the dispatch of the history-request frame.
C8_StartOnce ==
    Script => (/\ device_state = Realtime
               /\ device_found
               /\ NStart(hist[1]) + NStart(hist[2]) + NStart(hist[3])
                    + NStart(hist[4]) = 1
               /\ NStart(hist[2]) = 1)

\* C8 (amended): after the scripted sequence device_state is
\* TransmittingRealtime and device_found is true; START_REQUEST is written
\* once during the history-request frame, never during the history-data and
\* the realtime frame, and during the identifier-bearing frame exactly when
\* that frame carries the history-request tag itself.
C8_StartPerHistoryTag ==
    Script => (/\ device_state = Realtime
               /\ device_found
               /\ NStart(hist[2]) = 1
               /\ NStart(hist[3]) = 0
               /\ NStart(hist[4]) = 0
               /\ NStart(hist[1])
                    = IF hist[1].buf[1] = PACKET_ID_HISTORY THEN 1 ELSE 0)

\* The script ran with an identifier frame of another tag: one START_REQUEST.
C8_Witness == Script /\ hist[1].buf[1] # PACKET_ID_HISTORY /\ NStart(hist[2]) = 1

\* C9: a parse_packet call that returns gives a reading exactly when the
\* frame has the record length and the realtime tag, and device_state is
\* TransmittingRealtime then; a call that raises gives none.
C9_ReadingIffRealtime ==
    \A i \in 1..Len(hist) :
        LET e == hist[i]
        IN  /\ ~e.raised => ((e.res # None)
                              <=> (IsFull(e) /\ e.buf[1] = PACKET_ID_REALTIME))
            /\ e.raised => e.res = None
            /\ e.res # None => e.state = Realtime

\* A realtime frame gave a reading after a history-data frame gave none.
C9_Witness ==
    \E i, j \in 1..Len(hist) :
        /\ i < j
        /\ hist[i].buf[1] = PACKET_ID_HISTORY_DATA /\ hist[i].res = None
        /\ hist[j].res # None

\* C10: parse_packet on a frame of a wrong length changes neither
\* device_found, device_state, _data nor last_poll, writes no command,
\* raises nothing and returns no reading.
C10_WrongLengthNoEffect ==
    [][(Len(hist') = Len(hist) + 1 /\ ~IsFull(hist'[Len(hist')]))
        => (/\ device_found' = device_found
            /\ device_state' = device_state
            /\ data' = data
            /\ last_poll' = last_poll
            /\ hist'[Len(hist')].wr = <<>>
            /\ ~hist'[Len(hist')].raised
            /\ hist'[Len(hist')].res = None)]_vars

\* A frame too long with the history tag and the wait marker reached a found
\* device, and a frame of a wrong length with the identifier marker reached
\* a device not found.
C10_Witness ==
    /\ Len(hist) >= 2
    /\ ~IsFull(hist[1]) /\ HasId(hist[1]) /\ ~hist[1].found
    /\ \E i \in 2..Len(hist) :
        /\ ~IsFull(hist[i]) /\ hist[i].buf[1] = PACKET_ID_HISTORY
        /\ hist[i].found

\* C11: a poll that fails (connect failed, or a SerialException in the cycle)
\* returns no reading to refresh, which stays the stored poller and sleeps
\* for scan_interval; a poller ends only in a step whose connect cancels it;
\* and a poller whose sleep is over can make its next read_data call.
C11_PollerSurvivesFailure ==
    /\ [](\A p \in Pollers :
            (pc[p] = "sleep" /\ now >= wake[p]) => ENABLED ReadData(p))
    /\ [][\A p \in Pollers :
            /\ (ev'.t = p /\ (ev'.fail \/ ev'.opened = "fail"))
                 => (/\ ev'.ret = "nothing"
                     /\ pc'[p] = "sleep"
                     /\ wake'[p] = now + scan_interval
                     /\ update_task' = p)
            /\ (pc[p] # "none" /\ (pc'[p] = "none" \/ ev'.started = p))
                 => ev'.cancelled = p]_vars

\* A poll of the poller failed in its cycle and the poller sleeps.
C11_Witness ==
    /\ ev.t \in Pollers /\ ev.fail /\ ev.ret = "nothing"
    /\ pc[ev.t] = "sleep" /\ update_task = ev.t

\* C12: for every pair of bytes b0, b1 at the offset and the offset + 1 of a
\* realtime frame, the integer before scaling is b0 * 256 + b1 under "msb"
\* and b1 * 256 + b0 under "lsb", and the two differ when b0 # b1.
C12_ByteOrder ==
    decoded # <<>>
        => (/\ decoded.msb = decoded.b0 * 256 + decoded.b1
            /\ decoded.lsb = decoded.b1 * 256 + decoded.b0
            /\ decoded.b0 # decoded.b1 => decoded.msb # decoded.lsb)

\* The frame with the largest and the smallest byte was decoded.
C12_Witness ==
    /\ decoded # <<>>
    /\ decoded.b0 = 255 /\ decoded.b1 = 0
    /\ decoded.msb = 65280 /\ decoded.lsb = 255

\* device_found before the i-th dispatch of the harness.
FoundBefore(i) == i > 1 /\ hist[i - 1].found

\* C13 (as stated): the dispatch of a full-length frame that holds the
\* identifier marker while device_found is false leaves device_found true
\* and device_state IdentifierReceived.
C13_IdentifierAdvancesState ==
    \A i \in 1..Len(hist) :
        (IsFull(hist[i]) /\ HasId(hist[i]) /\ ~FoundBefore(i) /\ ~hist[i].raised)
            => (/\ hist[i].found
                /\ hist[i].state = DEVICE_STATES.IdentifierReceived)

Dispatched == Len(hist') = Len(hist) + 1
History == DEVICE_STATES.TransmittingHistory

\* C14 (as stated): device_state never moves to an earlier state when a
\* frame is dispatched; the only backward move is to Unknown, in a connect.
C14_NeverBackward ==
    [][device_state' < device_state
        => (/\ ~Dispatched
            /\ ev'.op = "connect"
            /\ device_state' = DEVICE_STATES.Unknown)]_vars

\* C14 (amended): device_state changes only in the dispatch of a full-length
\* frame that does not raise: to TransmittingRealtime on the realtime tag and
\* to TransmittingHistory on the history-data tag, whatever it was before.
\* So the only backward move is from TransmittingRealtime to
\* TransmittingHistory, and connect() leaves device_state as it is.
C14_StateFollowsTag ==
    [][/\ Dispatched
          => LET e == hist'[Len(hist')]
             IN  device_state'
                   = IF IsFull(e) /\ ~e.raised /\ e.buf[1] = PACKET_ID_REALTIME
                     THEN Realtime
                     ELSE IF IsFull(e) /\ ~e.raised
                             /\ e.buf[1] = PACKET_ID_HISTORY_DATA
                     THEN History
                     ELSE device_state
       /\ ~Dispatched => device_state' = device_state
       /\ device_state' < device_state
          => (device_state = Realtime /\ device_state' = History)]_vars

\* A history-data frame followed a realtime frame, and a later successful
\* connect() found and left device_state at TransmittingHistory.
C14_Witness ==
    /\ \E i \in 1..(Len(hist) - 1) :
          /\ hist[i].state = Realtime
          /\ hist[i + 1].buf[1] = PACKET_ID_HISTORY_DATA
          /\ hist[i + 1].state = History
    /\ hist[Len(hist)].state = History
    /\ ev.op = "connect" /\ ev.opened = "ok"
    /\ device_state = History

\* C15 (as stated): a step opens the transport only if connected is false
\* before it: a connect() made while connected is true does not open.
C15_OpensOnlyWhenClosed ==
    [][ev'.opened # "no" => ~connected]_vars

\* C16: whenever get_packet returns, the frame has the record length or is
\* empty, and only a frame of the record length is handed to parse_packet;
\* when the time is over or the read is short the frame is empty, and the
\* get_packet that follows in the cycle starts with an empty buffer.
C16_FullOrEmpty ==
    ev.got # None
        => (/\ ev.got \in {0, RecordLength}
            /\ ev.dispatched <=> ev.got = RecordLength
            /\ pc[ev.t] = "wait_byte" => sbuf[ev.t] = <<>>)

\* The time was over when a byte arrived: the bytes held were dropped.
C16_Witness ==
    /\ ev.op = "recv" /\ ev.got = 0
    /\ pc[ev.t] = "wait_byte" /\ sbuf[ev.t] = <<>>

\* C17: a task leaves read_data's cycle only in a step of its own in which a
\* dispatched frame gave a reading or a SerialException was raised (or, for
\* a poller, when a connect cancels it); a step in which get_packet returned
\* an empty frame, or a frame that parse_packet answered with nothing,
\* leaves the task in the cycle, at the start of a new get_packet.
C17_CycleEndsOnReadingOrFailure ==
    [][\A t \in Tasks :
        /\ (pc[t] = "wait_byte" /\ pc'[t] # "wait_byte")
             => \/ ev'.cancelled = t
                \/ /\ ev'.t = t
                   /\ \/ ev'.dispatched /\ ev'.ret = "reading" /\ ev'.res # None
                      \/ ev'.fail /\ ev'.ret = "nothing"
        /\ (pc[t] = "wait_byte" /\ ev'.t = t /\ ev'.got # None
                /\ ~ev'.fail /\ ev'.res = None)
             => (/\ pc'[t] = "wait_byte"
                 /\ ev'.ret = "pending"
                 /\ sbuf'[t] = <<>>
                 /\ starttime'[t] = now)]_vars

\* A dispatched frame was answered with nothing and the cycle goes on.
C17_Witness ==
    /\ ev.dispatched /\ ~ev.fail /\ ev.res = None /\ ev.ret = "pending"
    /\ pc[ev.t] = "wait_byte" /\ sbuf[ev.t] = <<>>

\* C18 (as stated): the transport is opened by the caller only: no step of
\* a poller runs connect().
C18_PollerNeverConnects ==
    ev.opened # "no" => ev.t \notin Pollers

HasWait(e) == Contains(Decode(Payload(e.buf)), Decode(ID_WAIT_HISTORY))

\* C19: a dispatch that writes a command, or raises in writing one, leaves
\* device_found true; so a frame with the history tag or the wait marker
\* that leaves device_found false (it was false and the frame holds no
\* identifier marker) writes nothing; and no step, connect() included, sets
\* device_found back to false.
C19_WritesOnlyWhenFound ==
    [][/\ Dispatched
          => LET e == hist'[Len(hist')]
             IN  /\ (e.wr # <<>> \/ e.raised) => (IsFull(e) /\ e.found)
                 /\ (~device_found /\ ~(IsFull(e) /\ HasId(e)))
                      => (e.wr = <<>> /\ ~e.raised /\ ~e.found)
       /\ device_found => device_found']_vars

\* A history-request frame and a frame with the wait marker reached the
\* device before it was found and caused no write; after the identifier
\* frame a command was written.
C19_Witness ==
    \E i, j, k \in 1..Len(hist) :
        /\ i < k /\ j < k
        /\ IsFull(hist[i]) /\ hist[i].buf[1] = PACKET_ID_HISTORY
        /\ ~hist[i].found /\ hist[i].wr = <<>>
        /\ IsFull(hist[j]) /\ HasWait(hist[j])
        /\ ~hist[j].found /\ hist[j].wr = <<>>
        /\ hist[k].found /\ hist[k].wr # <<>>

\* C20: _data and last_poll are both None or both set in every state; a step
\* that changes either is the end of a read_data cycle that produced a
\* reading, and sets both.
C20_CacheAndTimeTogether ==
    /\ []((data = None) <=> (last_poll = None))
    /\ [][(data' # data \/ last_poll' # last_poll)
            => (/\ ev'.op = "recv" /\ ev'.ret = "reading"
                /\ data' = ev'.res /\ data' # None
                /\ last_poll' = now)]_vars

\* A cycle ended with a reading and stored it with a time past the window.
C20_Witness ==
    /\ data # None /\ last_poll # None /\ last_poll > FreshWindow
    /\ ev.op = "recv" /\ ev.ret = "reading"

====
